---- MODULE Spec2Model ----
(***************************************************************************)
(* Model of phi/llm/aws/claude.py: the Claude adapter for AWS Bedrock.     *)
(*                                                                         *)
(* Python values are tagged records [t |-> <type>, v |-> <payload>] so     *)
(* that None, str, int, float, dict and list values can be told apart the  *)
(* way isinstance and truthiness tell them apart.  A float is held as a    *)
(* whole number of halves (Float(1) is 0.5, Float(2) is 1.0), an int as    *)
(* itself; comparisons go through Halves.  A dict is a function from its   *)
(* string keys to values; a list is a sequence of values.  An operation    *)
(* that raises yields Raise(<exception type>).                             *)
(***************************************************************************)
EXTENDS Integers, Sequences, FiniteSets, TLC

VARIABLES
    self,    \* the adapter's fields (the object under construction or built)
    status,  \* "new" before __init__, then "ready" or "failed"
    error,   \* which assertion of __init__ failed, "" when none
    op,      \* the last operation called
    arg,     \* its input
    out,     \* its result
    first    \* the first api_kwargs result and the first request body seen

vars == <<self, status, error, op, arg, out, first>>

(***************************************************************************)
(* Bounds of the explored inputs.                                          *)
(***************************************************************************)
MaxHalves == 3      \* floats range over -0.5 .. MaxHalves / 2
MaxSmallTopK == 1   \* small top_k values range over -1 .. MaxSmallTopK
MaxMessages == 3    \* longest message list given to get_request_body
MaxContent == 2     \* longest `content` list of a response payload

(***************************************************************************)
(* Python values.                                                          *)
(***************************************************************************)
None == [t |-> "None"]
Absent == [t |-> "absent"]   \* marks a key left out of a dict being built
Str(s) == [t |-> "str", v |-> s]
PyInt(n) == [t |-> "int", v |-> n]
Float(h) == [t |-> "float", v |-> h]
Dict(f) == [t |-> "dict", v |-> f]
List(s) == [t |-> "list", v |-> s]
Raise(e) == [t |-> "raise", v |-> e]

EmptyDict == [k \in {} |-> None]

\* bool(x): None, 0, 0.0, "", {} and [] are falsy
Truthy(x) ==
    CASE x.t = "None" -> FALSE
      [] x.t = "str" -> x.v # ""
      [] x.t = "int" -> x.v # 0
      [] x.t = "float" -> x.v # 0
      [] x.t = "dict" -> DOMAIN x.v # {}
      [] x.t = "list" -> Len(x.v) # 0
      [] OTHER -> TRUE

\* the value of a number in halves, so that ints and floats compare
Halves(x) == IF x.t = "int" THEN x.v + x.v ELSE x.v

\* a <= b on Python numbers
PyLe(a, b) == Halves(a) <= Halves(b)

\* d.get(k) and d.get(k, default) on a dict's mapping
Get(d, k) == IF k \in DOMAIN d THEN d[k] ELSE None
GetDefault(d, k, default) == IF k \in DOMAIN d THEN d[k] ELSE default

\* d[k] = v
SetItem(d, k, val) ==
    [x \in DOMAIN d \cup {k} |-> IF x = k THEN val ELSE d[x]]

\* d.update(e), also {**d, **e}: the keys of e win
Update(d, e) ==
    [x \in DOMAIN d \cup DOMAIN e |-> IF x \in DOMAIN e THEN e[x] ELSE d[x]]

\* a dict literal with the Absent entries left out
MkDict(r) == [k \in {x \in DOMAIN r : r[x] # Absent} |-> r[k]]

Range(s) == {s[i] : i \in 1..Len(s)}

\* phi.llm.message.Message: a role and a content
Message(role, content) == [t |-> "Message", role |-> role, content |-> content]

(***************************************************************************)
(* Claude.__init__ and its two validation passes.                          *)
(***************************************************************************)
\* the bug of an allow-list that also lets a legacy model through
ALLOWED_CLAUDE_IDS_WithV2 ==
    << Str("anthropic.claude-3-sonnet-20240229-v1:0"),
       Str("anthropic.claude-3-opus-20240229-v1:0"),
       Str("anthropic.claude-3-haiku-20240307-v1:0"),
       Str("anthropic.claude-v2") >>

ALLOWED_CLAUDE_IDS ==
    << Str("anthropic.claude-3-sonnet-20240229-v1:0"),
       Str("anthropic.claude-3-opus-20240229-v1:0"),
       Str("anthropic.claude-3-haiku-20240307-v1:0") >>

\* TRUE when the assertion of check_model_id passes
check_model_id(s) == s.model \in Range(ALLOWED_CLAUDE_IDS)

\* the bug of checking only the upper bounds
check_hyperparameters_UpperOnly(s) ==
    IF Truthy(s.temperature) /\ ~PyLe(s.temperature, PyInt(1))
    THEN "temperature"
    ELSE IF Truthy(s.top_p) /\ ~PyLe(s.top_p, PyInt(1))
    THEN "top_p"
    ELSE IF Truthy(s.top_k) /\ ~PyLe(s.top_k, PyInt(500))
    THEN "top_k"
    ELSE ""

\* the field whose assertion fails first, "" when all pass
check_hyperparameters(s) ==
    IF Truthy(s.temperature)
       /\ ~(PyLe(PyInt(0), s.temperature) /\ PyLe(s.temperature, PyInt(1)))
    THEN "temperature"
    ELSE IF Truthy(s.top_p)
            /\ ~(PyLe(PyInt(0), s.top_p) /\ PyLe(s.top_p, PyInt(1)))
    THEN "top_p"
    ELSE IF Truthy(s.top_k)
            /\ ~(PyLe(PyInt(0), s.top_k) /\ PyLe(s.top_k, PyInt(500)))
    THEN "top_k"
    ELSE ""

\* the assertion that stops __init__, "" when it returns
InitError(s) ==
    IF ~check_model_id(s) THEN "model" ELSE check_hyperparameters(s)

(***************************************************************************)
(* Claude.api_kwargs.                                                      *)
(***************************************************************************)
\* the bug of testing `is not None` where the code tests truthiness
api_kwargs_NotNone(s) ==
    LET p0 == [max_tokens |-> s.max_tokens,
               anthropic_version |-> s.anthropic_version]
        p1 == IF s.temperature # None
              THEN SetItem(p0, "temperature", s.temperature) ELSE p0
        p2 == IF s.top_p # None THEN SetItem(p1, "top_p", s.top_p) ELSE p1
        p3 == IF s.top_k # None THEN SetItem(p2, "top_k", s.top_k) ELSE p2
        p4 == IF s.stop_sequences # None
              THEN SetItem(p3, "stop_sequences", s.stop_sequences) ELSE p3
    IN  IF Truthy(s.request_params) THEN Update(p4, s.request_params.v) ELSE p4

api_kwargs(s) ==
    LET p0 == [max_tokens |-> s.max_tokens,
               anthropic_version |-> s.anthropic_version]
        p1 == IF Truthy(s.temperature)
              THEN SetItem(p0, "temperature", s.temperature) ELSE p0
        p2 == IF Truthy(s.top_p) THEN SetItem(p1, "top_p", s.top_p) ELSE p1
        p3 == IF Truthy(s.top_k) THEN SetItem(p2, "top_k", s.top_k) ELSE p2
        p4 == IF Truthy(s.stop_sequences)
              THEN SetItem(p3, "stop_sequences", s.stop_sequences) ELSE p3
    IN  IF Truthy(s.request_params) THEN Update(p4, s.request_params.v) ELSE p4

(***************************************************************************)
(* Claude.get_request_body.                                                *)
(***************************************************************************)
\* the for loop over messages[i..]: <<system_prompt, messages_for_api>>
RECURSIVE ScanMessages(_, _, _, _)
ScanMessages(messages, i, system_prompt, messages_for_api) ==
    IF i > Len(messages) THEN <<system_prompt, messages_for_api>>
    ELSE IF messages[i].role = Str("system")
    THEN ScanMessages(messages, i + 1, messages[i].content, messages_for_api)
    ELSE ScanMessages(messages, i + 1, system_prompt,
             Append(messages_for_api,
                    Dict([role |-> messages[i].role,
                          content |-> messages[i].content])))

\* the bug of keeping the first system message instead of the last
RECURSIVE ScanMessages_FirstWins(_, _, _, _)
ScanMessages_FirstWins(messages, i, system_prompt, messages_for_api) ==
    IF i > Len(messages) THEN <<system_prompt, messages_for_api>>
    ELSE IF messages[i].role = Str("system")
    THEN ScanMessages_FirstWins(messages, i + 1,
             IF system_prompt = None THEN messages[i].content
             ELSE system_prompt, messages_for_api)
    ELSE ScanMessages_FirstWins(messages, i + 1, system_prompt,
             Append(messages_for_api,
                    Dict([role |-> messages[i].role,
                          content |-> messages[i].content])))

get_request_body_FirstWins(s, messages) ==
    LET scan == ScanMessages_FirstWins(messages, 1, None, << >>)
        system_prompt == scan[1]
        request_body == Update([messages |-> List(scan[2])], api_kwargs(s))
    IN  IF Truthy(system_prompt)
        THEN SetItem(request_body, "system", system_prompt)
        ELSE request_body

get_request_body(s, messages) ==
    LET scan == ScanMessages(messages, 1, None, << >>)
        system_prompt == scan[1]
        request_body == Update([messages |-> List(scan[2])], api_kwargs(s))
    IN  IF Truthy(system_prompt)
        THEN SetItem(request_body, "system", system_prompt)
        ELSE request_body

(***************************************************************************)
(* Claude.parse_response_message and Claude.parse_response_delta.          *)
(***************************************************************************)
\* "\n".join(texts) for a sequence of str values
RECURSIVE JoinLines(_)
JoinLines(texts) ==
    IF Len(texts) = 0 THEN ""
    ELSE IF Len(texts) = 1 THEN texts[1].v
    ELSE texts[1].v \o "\n" \o JoinLines(Tail(texts))

\* "\n".join([c.get("text") for c in _content]): c.get needs a dict,
\* join needs every item to be a str
JoinTexts(_content) ==
    IF \E i \in 1..Len(_content) : _content[i].t # "dict"
    THEN Raise("AttributeError")
    ELSE LET texts == [i \in 1..Len(_content) |-> Get(_content[i].v, "text")]
         IN  IF \E i \in 1..Len(texts) : texts[i].t # "str"
             THEN Raise("TypeError")
             ELSE Str(JoinLines(texts))

\* the content of a "message" payload
MessageContent(response) ==
    LET _content == Get(response, "content")
    IN  IF Truthy(_content)
        THEN CASE _content.t = "str" -> _content
               [] _content.t = "dict" -> GetDefault(_content.v, "text", Str(""))
               [] _content.t = "list" -> JoinTexts(_content.v)
               [] OTHER -> Str("")
        ELSE Str("")

\* the bug of a fallback branch that trusts the payload's role
parse_response_message_PayloadRole(response) ==
    IF Get(response, "type") = Str("message")
    THEN LET content == MessageContent(response)
         IN  IF content.t = "raise" THEN content
             ELSE Message(Get(response, "role"), content)
    ELSE Message(GetDefault(response, "role", Str("assistant")),
                 Get(response, "completion"))

parse_response_message(response) ==
    IF Get(response, "type") = Str("message")
    THEN LET content == MessageContent(response)
         IN  IF content.t = "raise" THEN content
             ELSE Message(Get(response, "role"), content)
    ELSE Message(Str("assistant"), Get(response, "completion"))

parse_response_delta(response) ==
    IF "delta" \in DOMAIN response
    THEN LET delta == GetDefault(response, "delta", Dict(EmptyDict))
         IN  IF delta.t = "dict" THEN Get(delta.v, "text")
             ELSE Raise("AttributeError")
    ELSE Get(response, "completion")

(***************************************************************************)
(* Constructor arguments.                                                  *)
(***************************************************************************)
Floats == {None} \cup {Float(h) : h \in -1..MaxHalves}
TopKs == {None} \cup {PyInt(n) : n \in (-1..MaxSmallTopK) \cup {499, 500, 501}}
Models == Range(ALLOWED_CLAUDE_IDS) \cup {Str("anthropic.claude-v2"), Str("")}
StopSequences == {None, List(<< >>), List(<<Str("STOP")>>)}

\* request_params that reach into the computed keys
KwargsParams ==
    { None, Dict(EmptyDict),
      Dict([temperature |-> Float(1)]),
      Dict([max_tokens |-> PyInt(1), top_k |-> None]),
      Dict([stop_sequences |-> List(<< >>), stream |-> Str("yes")]) }

Args(models, maxtokens, temps, topps, topks, stops, params) ==
    [ name : {Str("AwsBedrockAnthropicClaude")},
      model : models,
      max_tokens : maxtokens,
      temperature : temps,
      top_p : topps,
      top_k : topks,
      stop_sequences : stops,
      anthropic_version : {Str("bedrock-2023-05-31")},
      request_params : params,
      client_params : {None} ]

MaxTokens == {PyInt(8192), PyInt(0)}

AllArgs ==
    Args(Models, MaxTokens, Floats, Floats, TopKs, StopSequences, KwargsParams)

\* request_params that reach into the keys of the request body
BodyParams ==
    { None,
      Dict([system |-> Str("RP")]),
      Dict([messages |-> List(<< >>)]),
      Dict([top_k |-> PyInt(5)]) }

BodyArgs ==
    Args({ALLOWED_CLAUDE_IDS[1]}, {PyInt(8192)}, {None, Float(1)}, {None},
         {None}, {None}, BodyParams)

DefaultArgs ==
    Args({ALLOWED_CLAUDE_IDS[1]}, {PyInt(8192)}, {None}, {None}, {None},
         {None}, {None})

(***************************************************************************)
(* Inputs of the operations.                                               *)
(***************************************************************************)
SystemMessages ==
    {Message(Str("system"), c) : c \in {None, Str(""), Str("S1"), Str("S2")}}
ChatMessages ==
    { Message(Str("user"), Str("U1")), Message(Str("user"), Str("U2")),
      Message(Str("assistant"), Str("A1")) }
Messages == SystemMessages \cup ChatMessages

SeqsUpTo(S, n) == UNION {[1..k -> S] : k \in 0..n}

MessageLists == SeqsUpTo(Messages, MaxMessages)

\* the elements of a `content` list: text blocks, a block without text,
\* a bare string
ContentItems ==
    { Dict([text |-> Str("a")]), Dict([text |-> Str("b")]), Dict(EmptyDict),
      Str("a") }

Contents ==
    { Absent, None, Str(""), Str("hi"), PyInt(0), PyInt(7),
      Dict(EmptyDict), Dict([text |-> Str("t")]), Dict([text |-> None]),
      Dict([kind |-> Str("image")]) }
    \cup {List(l) : l \in SeqsUpTo(ContentItems, MaxContent)}

\* payloads given to parse_response_message
Payloads ==
    { MkDict([type |-> ty, role |-> ro, content |-> co, completion |-> cm]) :
        ty \in {Absent, None, Str("message"), Str("completion")},
        ro \in {Absent, Str("assistant"), Str("user")},
        co \in Contents,
        cm \in {Absent, None, Str("hello")} }

\* fragments given to parse_response_delta
Fragments ==
    { MkDict([delta |-> de, completion |-> cm]) :
        de \in { Absent, None, Str("x"), Dict(EmptyDict),
                 Dict([text |-> Str("chunk")]), Dict([text |-> None]) },
        cm \in {Absent, None, Str("full")} }

(***************************************************************************)
(* The operations.                                                         *)
(***************************************************************************)
NoAdapter == [t |-> "NoAdapter"]
NoFirst == [kwargs |-> Absent, messages |-> Absent, body |-> Absent,
            parsed |-> {}, again |-> {}]

Init ==
    /\ self = NoAdapter
    /\ status = "new"
    /\ error = ""
    /\ op = ""
    /\ arg = None
    /\ out = None
    /\ first = NoFirst

\* Claude(**a): the fields are assigned, then validated
Construct(a) ==
    /\ status = "new"
    /\ self' = a
    /\ error' = InitError(a)
    /\ status' = IF InitError(a) = "" THEN "ready" ELSE "failed"
    /\ op' = "__init__"
    /\ arg' = None
    /\ out' = None

\* the bug of building the mapping in self.request_params instead of a
\* fresh dict
ApiKwargs_InPlace ==
    /\ status = "ready"
    /\ op' = "api_kwargs"
    /\ arg' = None
    /\ out' = Dict(api_kwargs(self))
    /\ self' = [self EXCEPT !.request_params = Dict(api_kwargs(self))]
    /\ UNCHANGED <<status, error>>

\* reading the api_kwargs property
ApiKwargs ==
    /\ status = "ready"
    /\ op' = "api_kwargs"
    /\ arg' = None
    /\ out' = Dict(api_kwargs(self))
    /\ UNCHANGED <<self, status, error>>

\* construction with any of the probed arguments
ConstructAny ==
    /\ status = "new"
    /\ \E a \in AllArgs : Construct(a)
    /\ UNCHANGED first

ReadApiKwargs == ApiKwargs /\ UNCHANGED first

NextConfig == ConstructAny \/ ReadApiKwargs

SpecConfig == Init /\ [][NextConfig]_vars

\* get_request_body(messages)
GetRequestBody(messages) ==
    /\ status = "ready"
    /\ op' = "get_request_body"
    /\ arg' = List(messages)
    /\ out' = Dict(get_request_body(self, messages))
    /\ UNCHANGED <<self, status, error>>

\* parse_response_message(response)
ParseResponseMessage(response) ==
    /\ status = "ready"
    /\ op' = "parse_response_message"
    /\ arg' = Dict(response)
    /\ out' = parse_response_message(response)
    /\ UNCHANGED <<self, status, error>>

\* parse_response_delta(response)
ParseResponseDelta(response) ==
    /\ status = "ready"
    /\ op' = "parse_response_delta"
    /\ arg' = Dict(response)
    /\ out' = parse_response_delta(response)
    /\ UNCHANGED <<self, status, error>>

(***************************************************************************)
(* Request bodies: a few adapters, every message list.  A run constructs   *)
(* an adapter and makes one call; runs of several calls are left to Spec.  *)
(***************************************************************************)
ConstructForBody ==
    /\ status = "new"
    /\ \E a \in BodyArgs : Construct(a)
    /\ UNCHANGED first

BuildRequestBody ==
    /\ op = "__init__"
    /\ \E messages \in MessageLists : GetRequestBody(messages)
    /\ UNCHANGED first

NextBody == ConstructForBody \/ BuildRequestBody

SpecBody == Init /\ [][NextBody]_vars

(***************************************************************************)
(* Response parsing: the default adapter, every payload and fragment, one  *)
(* call a run.                                                             *)
(***************************************************************************)
ConstructDefault ==
    /\ status = "new"
    /\ \E a \in DefaultArgs : Construct(a)
    /\ UNCHANGED first

ParseMessage ==
    /\ op = "__init__"
    /\ \E response \in Payloads : ParseResponseMessage(response)
    /\ UNCHANGED first

ParseDelta ==
    /\ op = "__init__"
    /\ \E response \in Fragments : ParseResponseDelta(response)
    /\ UNCHANGED first

NextParse == ConstructDefault \/ ParseMessage \/ ParseDelta

SpecParse == Init /\ [][NextParse]_vars

(***************************************************************************)
(* The life of one adapter: construction, then calls in any order and any  *)
(* number.  `first` keeps the first api_kwargs result, the first message   *)
(* list with its request body, the parsers called so far (parsed) and the  *)
(* operations repeated since (again).                                      *)
(***************************************************************************)
LifeMessages ==
    {Message(Str("system"), Str("S1")), Message(Str("user"), Str("U1"))}

LifeMessageLists ==
    {<< >>} \cup {<<a>> : a \in LifeMessages}
            \cup {<<a, b>> : a \in LifeMessages, b \in LifeMessages}

LifePayloads ==
    { [type |-> Str("message"), role |-> Str("assistant"),
       content |-> List(<<Dict([text |-> Str("a")]), Dict([text |-> Str("b")])>>)],
      [type |-> Str("message"), role |-> Str("assistant"),
       content |-> List(<<Dict(EmptyDict)>>)],
      [completion |-> Str("hello")] }

LifeFragments ==
    { [delta |-> Dict([text |-> Str("chunk")])], [delta |-> None] }

Remember ==
    first' =
        [ kwargs |-> IF op' = "api_kwargs" /\ first.kwargs = Absent
                     THEN out' ELSE first.kwargs,
          messages |-> IF op' = "get_request_body" /\ first.messages = Absent
                       THEN arg' ELSE first.messages,
          body |-> IF op' = "get_request_body" /\ first.messages = Absent
                   THEN out' ELSE first.body,
          parsed |-> first.parsed \cup
                     ({op'} \cap {"parse_response_message",
                                  "parse_response_delta"}),
          again |-> first.again
                    \cup (IF op' = "api_kwargs" /\ first.kwargs # Absent
                          THEN {"api_kwargs"} ELSE {})
                    \cup (IF op' = "get_request_body" /\ first.messages = arg'
                          THEN {"get_request_body"} ELSE {}) ]

ConstructOne ==
    /\ status = "new"
    /\ \E a \in BodyArgs : Construct(a)
    /\ UNCHANGED first

CallApiKwargs == ApiKwargs /\ Remember

CallGetRequestBody ==
    /\ \E messages \in LifeMessageLists : GetRequestBody(messages)
    /\ Remember

CallParseResponseMessage ==
    /\ \E response \in LifePayloads : ParseResponseMessage(response)
    /\ Remember

CallParseResponseDelta ==
    /\ \E response \in LifeFragments : ParseResponseDelta(response)
    /\ Remember

Next ==
    \/ ConstructOne
    \/ CallApiKwargs
    \/ CallGetRequestBody
    \/ CallParseResponseMessage
    \/ CallParseResponseDelta

Spec == Init /\ [][Next]_vars

(***************************************************************************)
(* Construction: the model check and the hyperparameter check.             *)
(***************************************************************************)
\* the three identifiers the adapter family supports
ClaimAllowList ==
    { Str("anthropic.claude-3-sonnet-20240229-v1:0"),
      Str("anthropic.claude-3-opus-20240229-v1:0"),
      Str("anthropic.claude-3-haiku-20240307-v1:0") }

\* x is non-null, non-zero and outside [0, hi]; hi and x counted in halves
ClaimOutOfRange(x, hi) ==
    /\ x # None
    /\ x.v # 0
    /\ (IF x.t = "int" THEN x.v + x.v ELSE x.v) \notin 0..hi

\* C1: construction with a model outside the allow-list always fails,
\* whatever the other parameters are, and construction with an allow-listed
\* model never fails on the model check.
C1_ModelCheck ==
    op = "__init__" =>
        /\ self.model \notin ClaimAllowList => status = "failed"
        /\ self.model \in ClaimAllowList => error # "model"

\* an unsupported model is refused although every hyperparameter is in range
C1_Witness ==
    /\ op = "__init__"
    /\ status = "failed"
    /\ self.model = Str("anthropic.claude-v2")
    /\ self.temperature = Float(1)
    /\ self.top_p = None
    /\ self.top_k = PyInt(500)

\* C2: with an allow-listed model, construction fails exactly when one of
\* temperature, top_p (range [0,1]) and top_k (range [0,500]) is non-null,
\* non-zero and outside its range; null, 0 and in-range values construct.
C2_HyperparameterCheck ==
    (op = "__init__" /\ self.model \in ClaimAllowList) =>
        (status = "failed" <=>
            \/ ClaimOutOfRange(self.temperature, 2)
            \/ ClaimOutOfRange(self.top_p, 2)
            \/ ClaimOutOfRange(self.top_k, 1000))

\* a negative top_k is refused while a temperature of exactly 0 is let through
C2_Witness ==
    /\ op = "__init__"
    /\ status = "failed"
    /\ error = "top_k"
    /\ self.model \in ClaimAllowList
    /\ self.temperature = Float(0)
    /\ self.top_p = Float(2)
    /\ self.top_k = PyInt(-1)

(***************************************************************************)
(* The effective-parameters mapping.                                       *)
(***************************************************************************)
\* the value is non-null and non-zero / non-empty
ClaimPresent(x) == x \notin {None, Float(0), PyInt(0), Str(""), List(<< >>)}

\* the keys of request_params, none when it is null
ClaimParamKeys == IF self.request_params = None THEN {}
                  ELSE DOMAIN self.request_params.v

ClaimOptionalKeys == {"temperature", "top_p", "top_k", "stop_sequences"}

\* C9: api_kwargs always has max_tokens and anthropic_version; it has
\* temperature, top_p, top_k and stop_sequences from the configuration only
\* when the value is non-null and non-zero / non-empty; and every key of
\* request_params holds the request_params value, overriding a computed one.
C9_ApiKwargs ==
    op = "api_kwargs" =>
        /\ {"max_tokens", "anthropic_version"} \subseteq DOMAIN out.v
        /\ DOMAIN out.v \subseteq
              {"max_tokens", "anthropic_version"} \cup ClaimOptionalKeys
                \cup ClaimParamKeys
        /\ \A k \in {"max_tokens", "anthropic_version"} \ ClaimParamKeys :
              out.v[k] = self[k]
        /\ \A k \in ClaimOptionalKeys \ ClaimParamKeys :
              /\ k \in DOMAIN out.v <=> ClaimPresent(self[k])
              /\ k \in DOMAIN out.v => out.v[k] = self[k]
        /\ \A k \in ClaimParamKeys : out.v[k] = self.request_params.v[k]

\* a zero top_p is left out, a set temperature is overridden by request_params
C9_Witness ==
    /\ op = "api_kwargs"
    /\ self.temperature = Float(2)
    /\ self.top_p = Float(0)
    /\ self.request_params = Dict([temperature |-> Float(1)])
    /\ out.v["temperature"] = Float(1)
    /\ "top_p" \notin DOMAIN out.v

(***************************************************************************)
(* The request body.                                                       *)
(***************************************************************************)
\* the {role, content} pairs of the non-system messages, in order
ClaimNonSystem(messages) ==
    LET kept == SelectSeq(messages, LAMBDA m : m.role # Str("system"))
    IN  [i \in 1..Len(kept) |->
            Dict([role |-> kept[i].role, content |-> kept[i].content])]

\* the content of the last system message, None when there is none
ClaimLastSystem(messages) ==
    LET sys == SelectSeq(messages, LAMBDA m : m.role = Str("system"))
    IN  IF Len(sys) = 0 THEN None ELSE sys[Len(sys)].content

ClaimHasSystem(messages) ==
    \E i \in 1..Len(messages) : messages[i].role = Str("system")

\* C3: for every constructed adapter, whatever its request_params, and every
\* message list, the `messages` field of the request body is exactly the
\* {role, content} pairs of the non-system messages, in their order.
C3_MessagesField ==
    op = "get_request_body" =>
        /\ "messages" \in DOMAIN out.v
        /\ out.v["messages"] = List(ClaimNonSystem(arg.v))

\* what holds of `messages` when request_params has no key of that name
C3_MessagesFieldUnlessOverridden ==
    (op = "get_request_body" /\ "messages" \notin ClaimParamKeys) =>
        /\ "messages" \in DOMAIN out.v
        /\ out.v["messages"] = List(ClaimNonSystem(arg.v))

\* C4 as stated: the body has a `system` field exactly when the list has a
\* system message, and it is then the content of the last one.
C4_SystemFieldAsStated ==
    op = "get_request_body" =>
        IF ClaimHasSystem(arg.v)
        THEN /\ "system" \in DOMAIN out.v
             /\ out.v["system"] = ClaimLastSystem(arg.v)
        ELSE "system" \notin DOMAIN out.v

\* C4: when the last system message of the list has non-empty content, the
\* body's `system` field is that content (earlier system messages and a
\* `system` key of request_params are overwritten); when the list has no
\* system message, or the last one's content is null or empty, the list
\* adds no `system` field: the body has one only if request_params has a
\* `system` key, and then with the request_params value.
C4_SystemField ==
    op = "get_request_body" =>
        IF ClaimLastSystem(arg.v) \notin {None, Str("")}
        THEN /\ "system" \in DOMAIN out.v
             /\ out.v["system"] = ClaimLastSystem(arg.v)
        ELSE IF "system" \in ClaimParamKeys
        THEN /\ "system" \in DOMAIN out.v
             /\ out.v["system"] = self.request_params.v["system"]
        ELSE "system" \notin DOMAIN out.v

\* two system messages: the last one wins, also over request_params
C4_Witness ==
    /\ op = "get_request_body"
    /\ arg = List(<< Message(Str("system"), Str("S1")),
                     Message(Str("system"), Str("S2")),
                     Message(Str("user"), Str("U1")) >>)
    /\ self.request_params = Dict([system |-> Str("RP")])
    /\ out.v["system"] = Str("S2")

(***************************************************************************)
(* Response parsing.                                                       *)
(***************************************************************************)
\* the `text` of a block, the empty string when it has none
ClaimText(c) == IF "text" \in DOMAIN c.v THEN c.v["text"] ELSE Str("")

RECURSIVE ClaimJoin(_)
ClaimJoin(blocks) ==
    IF Len(blocks) = 0 THEN ""
    ELSE IF Len(blocks) = 1 THEN ClaimText(blocks[1]).v
    ELSE ClaimText(blocks[1]).v \o "\n" \o ClaimJoin(Tail(blocks))

ClaimIsBlockList(co) ==
    co.t = "list" /\ \A i \in 1..Len(co.v) : co.v[i].t = "dict"

\* every block of the list carries a str `text`
ClaimIsTextList(co) ==
    /\ ClaimIsBlockList(co)
    /\ \A i \in 1..Len(co.v) :
          "text" \in DOMAIN co.v[i].v /\ co.v[i].v["text"].t = "str"

\* the content the message is to carry for a payload `content` of each shape
ClaimContent(co) ==
    CASE co.t = "str" -> co
      [] co.t = "dict" -> ClaimText(co)
      [] ClaimIsBlockList(co) -> Str(ClaimJoin(co.v))
      [] OTHER -> Str("")

ClaimIsMessage(response) ==
    "type" \in DOMAIN response /\ response["type"] = Str("message")

\* C5: for a payload of type "message", the result is a message with the
\* payload's role whose content is the `content` string verbatim, the
\* `text` of a single object (empty when absent), the `text` fields of a
\* list of objects joined by newlines in list order, and the empty string
\* for any other shape, null and missing included.
C5_MessageContent ==
    (op = "parse_response_message" /\ ClaimIsMessage(arg.v)) =>
        out = Message(Get(arg.v, "role"), ClaimContent(Get(arg.v, "content")))

\* what holds of a "message" payload whose `content` is not a list, or is a
\* list of blocks that each carry a str `text`
C5_MessageContentOfTextBlocks ==
    (/\ op = "parse_response_message"
     /\ ClaimIsMessage(arg.v)
     /\ Get(arg.v, "content").t = "list" => ClaimIsTextList(Get(arg.v, "content")))
    => out = Message(Get(arg.v, "role"), ClaimContent(Get(arg.v, "content")))

\* C6: for a payload with no `type`, or a `type` other than "message", the
\* result has role "assistant" and the payload's `completion` as content
\* (null when absent), whatever `role` and `content` the payload carries.
C6_Fallback ==
    (op = "parse_response_message" /\ ~ClaimIsMessage(arg.v)) =>
        out = Message(Str("assistant"),
                      IF "completion" \in DOMAIN arg.v
                      THEN arg.v["completion"] ELSE None)

\* a legacy payload that carries a role and a content of its own
C6_Witness ==
    /\ op = "parse_response_message"
    /\ arg = Dict([type |-> Str("completion"), role |-> Str("user"),
                   content |-> Str("hi"), completion |-> Str("hello")])
    /\ out = Message(Str("assistant"), Str("hello"))

\* C7: a fragment with a `delta` field yields the delta's `text` (null when
\* absent), also when it has a `completion`; any other fragment yields its
\* `completion`, null when absent.
C7_Delta ==
    op = "parse_response_delta" =>
        out = IF "delta" \in DOMAIN arg.v
              THEN IF arg.v["delta"].t = "dict"
                      /\ "text" \in DOMAIN arg.v["delta"].v
                   THEN arg.v["delta"].v["text"]
                   ELSE None
              ELSE Get(arg.v, "completion")

\* what holds of a fragment whose `delta`, when it has one, is an object
C7_DeltaOfObject ==
    (/\ op = "parse_response_delta"
     /\ "delta" \in DOMAIN arg.v => arg.v["delta"].t = "dict")
    => out = IF "delta" \in DOMAIN arg.v
             THEN Get(arg.v["delta"].v, "text")
             ELSE Get(arg.v, "completion")

\* C8: response parsing never raises, whatever fields of the payload are
\* missing, null or of an unexpected shape.
C8_NeverRaises ==
    op \in {"parse_response_message", "parse_response_delta"} =>
        out.t # "raise"

(***************************************************************************)
(* Statelessness.                                                          *)
(***************************************************************************)
\* C10: no call on a constructed adapter changes a configuration field, so
\* api_kwargs read again, and get_request_body called again on the same
\* message list, give what they gave the first time.
C10_Stateless ==
    [][status = "ready" =>
          /\ self' = self
          /\ status' = "ready"
          /\ (op' = "api_kwargs" /\ first.kwargs # Absent)
                => out' = first.kwargs
          /\ (op' = "get_request_body" /\ arg' = first.messages)
                => out' = first.body]_vars

\* both parsers have run, one of them raising, and api_kwargs and
\* get_request_body have since been repeated
C10_Witness ==
    /\ status = "ready"
    /\ first.parsed = {"parse_response_message", "parse_response_delta"}
    /\ first.again = {"api_kwargs", "get_request_body"}
    /\ self.request_params = Dict([system |-> Str("RP")])
    /\ op = "get_request_body"
    /\ arg = first.messages
    /\ out = first.body

====
